---------------------------- MODULE Spec2Model ----------------------------
(***************************************************************************)
(* Model of main.py: the class Ordonnancement (task table, adjacency       *)
(* matrix with the fictitious vertices alpha and omega, circuit detection, *)
(* ranks, calendars, critical paths) and the menu loop of main().          *)
(*                                                                         *)
(* Python values are modelled as follows.                                  *)
(*   - None is the empty tuple <<>>; a matrix cell holding the weight w is *)
(*     the 1-tuple <<w>>, so "is not None" is "# None".                    *)
(*   - a list indexed from 0 (matrix, in_degree, ranks, early, ...) is a   *)
(*     function on 0..size-1; a list that is only appended to, popped and  *)
(*     iterated (adj[i], queue, path, paths) is a sequence.                *)
(*   - float('inf') is the value Inf, larger than every date the bounded   *)
(*     durations can produce; inf - w is inf.                              *)
(*   - an uncaught exception ends the program: pc = "crashed" and error    *)
(*     names the exception.                                                *)
(***************************************************************************)
EXTENDS Integers, Sequences, FiniteSets, TLC

(***************************************************************************)
(* Bounds of the model.                                                    *)
(***************************************************************************)
\* largest task id a constraint file may define or reference
MaxN == 2
\* largest task duration a constraint file may give (the smallest is -1)
MaxDur == 1
\* depth of dfs() calls at which the interpreter raises RecursionError
\* (1000 frames in CPython; any value above MaxN + 2 leaves every simple
\* path of the graph intact)
RecursionLimit == 7

None == <<>>
Inf == 1000

VARIABLES
    file,      \* the constraint file the user names at choice 1
    tasks,     \* self.tasks
    matrix,    \* self.matrix
    n,         \* self.n
    omega,     \* self.omega
    pc,        \* "menu": waiting for a choice; "done": left the loop;
               \* "crashed": an exception left main()
    error,     \* the exception that left main(), "" when none
    calls,     \* the methods the last menu choice called, in order
    verdict,   \* what verifier_proprietes returned in the last choice
    circuit,   \* what detecter_circuit returned in the last choice
    ranks,     \* what calculer_rangs returned in the last choice
    early,     \* calculer_calendriers: early
    late,      \* calculer_calendriers: late
    margins,   \* calculer_calendriers: margins
    paths,     \* what trouver_chemins_critiques returned in the last choice
    stack      \* the path of dfs() when RecursionError was raised

vars == <<file, tasks, matrix, n, omega, pc, error, calls, verdict, circuit,
          ranks, early, late, margins, paths, stack>>

\* self.alpha, set once in __init__
alpha == 0

(***************************************************************************)
(* Constraint files.  A file is missing, well read ("ok": table is its     *)
(* content) or holds a line that is not a list of integers ("bad": table   *)
(* is what the lines before it define, at most task 1).  Task ids are      *)
(* positive; a table may skip ids and may reference ids it does not        *)
(* define.  The lines of a file are taken in increasing order of task id,  *)
(* the predecessors of a task in increasing order.                         *)
(***************************************************************************)
Durs == {0 - 1} \cup (0..MaxDur)

TaskRec == [dur : Durs, preds : SUBSET (1..MaxN)]

Tables == UNION {[K -> TaskRec] : K \in SUBSET (1..MaxN)}

\* the example of the documentation: four tasks, project duration 8
ExampleTable ==
    (1 :> [dur |-> 3, preds |-> {}]) @@ (2 :> [dur |-> 2, preds |-> {}])
    @@ (3 :> [dur |-> 4, preds |-> {1, 2}]) @@ (4 :> [dur |-> 1, preds |-> {3}])

\* three tasks of duration 0, task 2 its own predecessor
LoopTable ==
    (1 :> [dur |-> 0, preds |-> {}]) @@ (2 :> [dur |-> 0, preds |-> {1, 2}])
    @@ (3 :> [dur |-> 0, preds |-> {1, 2}])

Files ==
    {[kind |-> "missing", table |-> <<>>]}
    \cup {[kind |-> "ok", table |-> t] :
              t \in Tables \cup {ExampleTable, LoopTable}}
    \cup {[kind |-> "bad", table |-> t] :
              t \in {u \in Tables : DOMAIN u \subseteq {1}}}

(***************************************************************************)
(* Helpers for Python lists.                                               *)
(***************************************************************************)
\* [i for i in range(size) if P(i)], for the set S of the i with P(i)
RECURSIVE ListOf(_, _, _)
ListOf(S, i, size) ==
    IF i >= size THEN <<>>
    ELSE (IF i \in S THEN <<i>> ELSE <<>>) \o ListOf(S, i + 1, size)

\* the elements of a set of integers in increasing order: the order in which
\* the file lists the task ids and the predecessors of a task
RECURSIVE Sorted(_)
Sorted(S) ==
    IF S = {} THEN <<>>
    ELSE LET x == CHOOSE x \in S : \A y \in S : x <= y
         IN <<x>> \o Sorted(S \ {x})

\* len(self.matrix)
Len0(m) == Cardinality(DOMAIN m)

\* the set of elements of a sequence
Range(s) == {s[k] : k \in 1..Len(s)}

(***************************************************************************)
(* construire_graphe                                                       *)
(***************************************************************************)
\* lines 38-44: a size x size matrix of None
EmptyMatrix(size) == [i \in 0..(size - 1) |-> [j \in 0..(size - 1) |-> None]]

\* lines 47-49: for task in self.tasks: arcs alpha -> task for the tasks
\* without predecessors.  st = [m, err]; keys is the list of the task ids
\* still to visit.
RECURSIVE AlphaArcs(_, _, _)
AlphaArcs(tbl, keys, st) ==
    IF keys = <<>> \/ st.err # "" THEN st
    ELSE LET task == Head(keys) IN
         IF tbl[task].preds # {} THEN AlphaArcs(tbl, Tail(keys), st)
         ELSE IF task >= Len0(st.m)
              THEN [st EXCEPT !.err = "IndexError"]
              ELSE AlphaArcs(tbl, Tail(keys),
                             [st EXCEPT !.m[alpha][task] = <<0>>])

\* a variant of SetPredArc that skips a predecessor the table does not
\* define (self.tasks.get(pred) guarded by "if pred in self.tasks")
SetPredArcDrop(tbl, task, pred, st) ==
    IF pred \notin DOMAIN tbl THEN st
    ELSE IF pred >= Len0(st.m) \/ task >= Len0(st.m)
         THEN [st EXCEPT !.err = "IndexError"]
         ELSE [st EXCEPT !.m[pred][task] = <<tbl[pred].dur>>]

\* line 55: self.matrix[pred][task] = self.tasks[pred][0]; the right-hand
\* side is evaluated first
SetPredArc(tbl, task, pred, st) ==
    IF pred \notin DOMAIN tbl THEN [st EXCEPT !.err = "KeyError"]
    ELSE IF pred >= Len0(st.m) \/ task >= Len0(st.m)
         THEN [st EXCEPT !.err = "IndexError"]
         ELSE [st EXCEPT !.m[pred][task] = <<tbl[pred].dur>>]

\* lines 54-55: for pred in predecessors
RECURSIVE PredLoop(_, _, _, _)
PredLoop(tbl, task, preds, st) ==
    IF preds = <<>> \/ st.err # "" THEN st
    ELSE PredLoop(tbl, task, Tail(preds),
                  SetPredArc(tbl, task, Head(preds), st))

\* lines 52-55: for task in self.tasks
RECURSIVE PredArcs(_, _, _)
PredArcs(tbl, keys, st) ==
    IF keys = <<>> \/ st.err # "" THEN st
    ELSE PredArcs(tbl, Tail(keys),
                  PredLoop(tbl, Head(keys),
                           Sorted(tbl[Head(keys)].preds), st))

\* a variant of SinkArcs whose test lost its "not": has_successor
RECURSIVE SinkArcsInverted(_, _, _, _)
SinkArcsInverted(tbl, om, i, st) ==
    IF i >= Len0(st.m) \/ st.err # "" THEN st
    ELSE LET has_successor ==
                 \E j \in 0..(Len0(st.m) - 1) : st.m[i][j] # None
         IN IF i # om /\ has_successor /\ i \in DOMAIN tbl
            THEN SinkArcsInverted(tbl, om, i + 1,
                                  [st EXCEPT !.m[i][om] = <<tbl[i].dur>>])
            ELSE SinkArcsInverted(tbl, om, i + 1, st)

\* lines 58-61: arcs to omega from the tasks without successors
RECURSIVE SinkArcs(_, _, _, _)
SinkArcs(tbl, om, i, st) ==
    IF i >= Len0(st.m) \/ st.err # "" THEN st
    ELSE LET has_successor ==
                 \E j \in 0..(Len0(st.m) - 1) : st.m[i][j] # None
         IN IF i # om /\ ~has_successor /\ i \in DOMAIN tbl
            THEN SinkArcs(tbl, om, i + 1,
                          [st EXCEPT !.m[i][om] = <<tbl[i].dur>>])
            ELSE SinkArcs(tbl, om, i + 1, st)

\* construire_graphe: [m |-> the matrix, err |-> "" or the exception raised]
ConstruireGraphe(tbl, nn, om) ==
    LET keys == Sorted(DOMAIN tbl)
        s0 == [m |-> EmptyMatrix(nn + 2), err |-> ""]
        s1 == AlphaArcs(tbl, keys, s0)
        s2 == PredArcs(tbl, keys, s1)
    IN SinkArcs(tbl, om, 0, s2)

(***************************************************************************)
(* Python values returned by detecter_circuit and its dfs(): None, False,  *)
(* True or a list of vertices.                                             *)
(***************************************************************************)
PyNone == [tag |-> "None", val |-> <<>>]
PyFalse == [tag |-> "False", val |-> <<>>]
PyTrue == [tag |-> "True", val |-> <<>>]
PyList(s) == [tag |-> "list", val |-> s]

\* the truth value Python gives x in "if x"
Truthy(x) == x.tag = "True" \/ (x.tag = "list" /\ x.val # <<>>)

(***************************************************************************)
(* The adjacency lists and in-degrees every analysis derives from the      *)
(* matrix (lines 138-146, again 217-224 and 257-264).                      *)
(***************************************************************************)
\* adj[i]: the j with an arc i -> j, in increasing order
AdjList(m) ==
    [i \in DOMAIN m |-> ListOf({j \in DOMAIN m : m[i][j] # None}, 0, Len0(m))]

\* in_degree[j]: the number of arcs i -> j
InDegree(m) ==
    [j \in DOMAIN m |-> Cardinality({i \in DOMAIN m : m[i][j] # None})]

\* deque([i for i in range(size) if in_degree[i] == 0])
EntryPoints(deg) == ListOf({i \in DOMAIN deg : deg[i] = 0}, 0, Len0(deg))

(***************************************************************************)
(* detecter_circuit                                                        *)
(***************************************************************************)
\* lines 160-163: for v in adj[u]: in_degree[v] -= 1, enqueue v at 0.
\* st = [deg, queue]; nbrs is what is left of adj[u].
RECURSIVE Eliminate(_, _)
Eliminate(nbrs, st) ==
    IF nbrs = <<>> THEN st
    ELSE LET v == Head(nbrs)
             d == st.deg[v] - 1
         IN Eliminate(Tail(nbrs),
                      [deg |-> [st.deg EXCEPT ![v] = d],
                       queue |-> IF d = 0 THEN Append(st.queue, v)
                                          ELSE st.queue])

\* lines 153-168: while queue; the result is count
RECURSIVE KahnCount(_, _, _, _)
KahnCount(adj, deg, queue, count) ==
    IF queue = <<>> THEN count
    ELSE LET u == Head(queue)
             st == Eliminate(adj[u], [deg |-> deg, queue |-> Tail(queue)])
         IN KahnCount(adj, st.deg, st.queue, count + 1)

\* path.index(neighbor)
RECURSIVE IndexOf(_, _, _)
IndexOf(path, x, k) ==
    IF path[k] = x THEN k ELSE IndexOf(path, x, k + 1)

\* lines 176-192: dfs(node) and its loop over adj[node] from position k.
\* st = [visited, on_stack, path, ret]: the closure's lists and the value
\* the call returns.
RECURSIVE CircuitDfs(_, _, _)
RECURSIVE CircuitNeighbors(_, _, _, _)
CircuitNeighbors(adj, node, k, st) ==
    IF k > Len(adj[node])
    THEN [visited |-> st.visited,
          on_stack |-> [st.on_stack EXCEPT ![node] = FALSE],
          path |-> SubSeq(st.path, 1, Len(st.path) - 1),
          ret |-> PyFalse]
    ELSE LET neighbor == adj[node][k] IN
         IF ~st.visited[neighbor]
         THEN LET r == CircuitDfs(adj, neighbor, st) IN
              IF Truthy(r.ret) THEN [r EXCEPT !.ret = PyTrue]
              ELSE CircuitNeighbors(adj, node, k + 1, r)
         ELSE IF st.on_stack[neighbor]
              THEN LET circuit_start == IndexOf(st.path, neighbor, 1) IN
                   [st EXCEPT !.ret =
                       PyList(SubSeq(st.path, circuit_start, Len(st.path))
                              \o <<neighbor>>)]
              ELSE CircuitNeighbors(adj, node, k + 1, st)

CircuitDfs(adj, node, st) ==
    CircuitNeighbors(adj, node, 1,
        [visited |-> [st.visited EXCEPT ![node] = TRUE],
         on_stack |-> [st.on_stack EXCEPT ![node] = TRUE],
         path |-> Append(st.path, node),
         ret |-> PyFalse])

\* lines 194-200: for node in range(size): the first truthy dfs(node), or []
RECURSIVE CircuitSearch(_, _, _)
CircuitSearch(adj, node, st) ==
    IF node >= Len0(adj) THEN PyList(<<>>)
    ELSE IF st.visited[node] THEN CircuitSearch(adj, node + 1, st)
         ELSE LET r == CircuitDfs(adj, node, st) IN
              IF Truthy(r.ret) THEN r.ret
              ELSE CircuitSearch(adj, node + 1, r)

DetecterCircuit(m) ==
    LET adj == AdjList(m)
        deg == InDegree(m)
        count == KahnCount(adj, deg, EntryPoints(deg), 0)
    IN IF count # Len0(m)
       THEN CircuitSearch(adj, 0,
                [visited |-> [i \in DOMAIN m |-> FALSE],
                 on_stack |-> [i \in DOMAIN m |-> FALSE],
                 path |-> <<>>,
                 ret |-> PyFalse])
       ELSE PyNone

(***************************************************************************)
(* verifier_proprietes                                                     *)
(***************************************************************************)
\* lines 111-116
HasNegative(m) ==
    \E i \in DOMAIN m : \E j \in DOMAIN m : m[i][j] # None /\ m[i][j][1] < 0

\* a variant of VerifierProprietes returning
\* "not has_negative or not circuit"
VerifierProprietesOr(m) ==
    IF m = None
    THEN [ret |-> FALSE, called |-> FALSE, circuit |-> PyNone]
    ELSE LET has_negative == HasNegative(m)
             c == DetecterCircuit(m)
         IN [ret |-> ~has_negative \/ ~Truthy(c), called |-> TRUE,
             circuit |-> c]

\* [ret |-> the verdict, called |-> whether detecter_circuit ran,
\*  circuit |-> what it returned]
VerifierProprietes(m) ==
    IF m = None
    THEN [ret |-> FALSE, called |-> FALSE, circuit |-> PyNone]
    ELSE LET has_negative == HasNegative(m)
             c == DetecterCircuit(m)
         IN [ret |-> ~has_negative /\ ~Truthy(c), called |-> TRUE,
             circuit |-> c]

(***************************************************************************)
(* calculer_rangs                                                          *)
(***************************************************************************)
\* a variant of RankRelax comparing "ranks[v] < ranks[u]"
RECURSIVE RankRelaxOffByOne(_, _, _)
RankRelaxOffByOne(u, nbrs, st) ==
    IF nbrs = <<>> THEN st
    ELSE LET v == Head(nbrs)
             d == st.deg[v] - 1
         IN RankRelaxOffByOne(u, Tail(nbrs),
                [ranks |-> IF st.ranks[v] < st.ranks[u]
                           THEN [st.ranks EXCEPT ![v] = st.ranks[u] + 1]
                           ELSE st.ranks,
                 deg |-> [st.deg EXCEPT ![v] = d],
                 queue |-> IF d = 0 THEN Append(st.queue, v) ELSE st.queue])

\* lines 231-236: for v in adj[u].  st = [ranks, deg, queue].
RECURSIVE RankRelax(_, _, _)
RankRelax(u, nbrs, st) ==
    IF nbrs = <<>> THEN st
    ELSE LET v == Head(nbrs)
             d == st.deg[v] - 1
         IN RankRelax(u, Tail(nbrs),
                [ranks |-> IF st.ranks[v] < st.ranks[u] + 1
                           THEN [st.ranks EXCEPT ![v] = st.ranks[u] + 1]
                           ELSE st.ranks,
                 deg |-> [st.deg EXCEPT ![v] = d],
                 queue |-> IF d = 0 THEN Append(st.queue, v) ELSE st.queue])

\* lines 228-236: while queue
RECURSIVE RankLoop(_, _)
RankLoop(adj, st) ==
    IF st.queue = <<>> THEN st.ranks
    ELSE LET u == Head(st.queue) IN
         RankLoop(adj, RankRelax(u, adj[u], [st EXCEPT !.queue = Tail(@)]))

CalculerRangs(m) ==
    IF m = None THEN None
    ELSE LET deg == InDegree(m) IN
         RankLoop(AdjList(m),
                  [ranks |-> [i \in DOMAIN m |-> 0], deg |-> deg,
                   queue |-> EntryPoints(deg)])

(***************************************************************************)
(* calculer_calendriers                                                    *)
(***************************************************************************)
\* self.matrix[u][v] if self.matrix[u][v] is not None else 0
Weight(m, u, v) == IF m[u][v] # None THEN m[u][v][1] ELSE 0

\* x - w in floating point when x may be float('inf')
Minus(x, w) == IF x = Inf THEN Inf ELSE x - w

\* lines 271-276: for v in adj[u].  st = [early, deg, queue].
RECURSIVE EarlyRelax(_, _, _, _)
EarlyRelax(m, u, nbrs, st) ==
    IF nbrs = <<>> THEN st
    ELSE LET v == Head(nbrs)
             d == st.deg[v] - 1
             e == st.early[u] + Weight(m, u, v)
         IN EarlyRelax(m, u, Tail(nbrs),
                [early |-> IF st.early[v] < e
                           THEN [st.early EXCEPT ![v] = e] ELSE st.early,
                 deg |-> [st.deg EXCEPT ![v] = d],
                 queue |-> IF d = 0 THEN Append(st.queue, v) ELSE st.queue])

\* lines 268-276: while queue
RECURSIVE EarlyLoop(_, _, _)
EarlyLoop(m, adj, st) ==
    IF st.queue = <<>> THEN st.early
    ELSE LET u == Head(st.queue) IN
         EarlyLoop(m, adj,
                   EarlyRelax(m, u, adj[u], [st EXCEPT !.queue = Tail(@)]))

\* lines 286-293: the reversed graph; rev_adj[j] lists the i with an arc
\* i -> j, rev_in_degree[i] counts the arcs leaving i
RevAdjList(m) ==
    [j \in DOMAIN m |-> ListOf({i \in DOMAIN m : m[i][j] # None}, 0, Len0(m))]

RevInDegree(m) ==
    [i \in DOMAIN m |-> Cardinality({j \in DOMAIN m : m[i][j] # None})]

\* a variant of LateRelax that assigns late[v] without taking the minimum
RECURSIVE LateRelaxNoMin(_, _, _, _)
LateRelaxNoMin(m, u, nbrs, st) ==
    IF nbrs = <<>> THEN st
    ELSE LET v == Head(nbrs)
             d == st.deg[v] - 1
             l == Minus(st.late[u], Weight(m, v, u))
         IN LateRelaxNoMin(m, u, Tail(nbrs),
                [late |-> [st.late EXCEPT ![v] = l],
                 deg |-> [st.deg EXCEPT ![v] = d],
                 queue |-> IF d = 0 THEN Append(st.queue, v) ELSE st.queue])

\* lines 300-305: for v in rev_adj[u].  st = [late, deg, queue].
RECURSIVE LateRelax(_, _, _, _)
LateRelax(m, u, nbrs, st) ==
    IF nbrs = <<>> THEN st
    ELSE LET v == Head(nbrs)
             d == st.deg[v] - 1
             l == Minus(st.late[u], Weight(m, v, u))
         IN LateRelax(m, u, Tail(nbrs),
                [late |-> IF st.late[v] > l
                          THEN [st.late EXCEPT ![v] = l] ELSE st.late,
                 deg |-> [st.deg EXCEPT ![v] = d],
                 queue |-> IF d = 0 THEN Append(st.queue, v) ELSE st.queue])

\* lines 297-305: while queue
RECURSIVE LateLoop(_, _, _)
LateLoop(m, rev_adj, st) ==
    IF st.queue = <<>> THEN st.late
    ELSE LET u == Head(st.queue) IN
         LateLoop(m, rev_adj,
                  LateRelax(m, u, rev_adj[u], [st EXCEPT !.queue = Tail(@)]))

\* [early, late, margins], each None before the graph is built
CalculerCalendriers(m, om) ==
    IF m = None THEN [early |-> None, late |-> None, margins |-> None]
    ELSE LET deg == InDegree(m)
             e == EarlyLoop(m, AdjList(m),
                      [early |-> [i \in DOMAIN m |-> 0], deg |-> deg,
                       queue |-> EntryPoints(deg)])
             total_duration == e[om]
             rdeg == RevInDegree(m)
             l == LateLoop(m, RevAdjList(m),
                      [late |-> [[i \in DOMAIN m |-> Inf]
                                     EXCEPT ![om] = total_duration],
                       deg |-> rdeg, queue |-> EntryPoints(rdeg)])
         IN [early |-> e, late |-> l,
             margins |-> [i \in DOMAIN m |-> Minus(l[i], e[i])]]

(***************************************************************************)
(* trouver_chemins_critiques                                               *)
(***************************************************************************)
\* a variant of CriticalAdj reading late[i] where the code reads late[j]
CriticalAdjLateI(m, e, l) ==
    [i \in DOMAIN m |->
        ListOf({j \in DOMAIN m :
                   m[i][j] # None
                   /\ Minus(Minus(l[i], e[i]), Weight(m, i, j)) = 0},
               0, Len0(m))]

\* lines 335-344: adj of the arcs with
\* late[j] - early[i] - weight(i, j) == 0
CriticalAdj(m, e, l) ==
    [i \in DOMAIN m |->
        ListOf({j \in DOMAIN m :
                   m[i][j] # None
                   /\ Minus(Minus(l[j], e[i]), Weight(m, i, j)) = 0},
               0, Len0(m))]

\* lines 347-356: dfs(node, path, paths) called at the given depth, and its
\* loop over adj[node] from position k.  st = [path, paths, err].
RECURSIVE PathDfs(_, _, _, _, _)
RECURSIVE PathNeighbors(_, _, _, _, _, _)
PathNeighbors(adj, om, node, k, depth, st) ==
    IF st.err # "" THEN st
    ELSE IF k > Len(adj[node])
         THEN [st EXCEPT !.path = SubSeq(@, 1, Len(@) - 1)]
         ELSE PathNeighbors(adj, om, node, k + 1, depth,
                            PathDfs(adj, om, adj[node][k], depth + 1, st))

PathDfs(adj, om, node, depth, st) ==
    IF depth > RecursionLimit THEN [st EXCEPT !.err = "RecursionError"]
    ELSE LET s1 == [st EXCEPT !.path = Append(@, node)] IN
         IF node = om
         THEN [st EXCEPT !.paths = Append(@, s1.path)]
         ELSE PathNeighbors(adj, om, node, 1, depth, s1)

\* [ret |-> None or the list of paths, err, stack |-> path when err was
\* raised]
TrouverCheminsCritiques(m, om, e, l) ==
    IF m = None \/ e = None \/ l = None
    THEN [ret |-> PyNone, err |-> "", stack |-> <<>>]
    ELSE LET r == PathDfs(CriticalAdj(m, e, l), om, alpha, 1,
                          [path |-> <<>>, paths |-> <<>>, err |-> ""])
         IN IF r.err # ""
            THEN [ret |-> PyNone, err |-> r.err, stack |-> r.path]
            ELSE [ret |-> PyList(r.paths), err |-> "", stack |-> <<>>]

(***************************************************************************)
(* lire_fichier                                                            *)
(***************************************************************************)
\* [ret, tasks, n, omega]: a missing file changes nothing (lines 29-31); a
\* line that does not parse leaves self.tasks with the lines read before
\* it and self.n, self.omega as they were (lines 18-24, 32-34)
LireFichier(f, nn, om, tbl) ==
    CASE f.kind = "missing" ->
             [ret |-> FALSE, tasks |-> tbl, n |-> nn, omega |-> om]
      [] f.kind = "bad" ->
             [ret |-> FALSE, tasks |-> f.table, n |-> nn, omega |-> om]
      [] OTHER ->
             [ret |-> TRUE, tasks |-> f.table,
              n |-> Cardinality(DOMAIN f.table),
              omega |-> Cardinality(DOMAIN f.table) + 1]

(***************************************************************************)
(* main(): one action per menu choice.  The variables verdict .. stack     *)
(* hold what the methods called by the last choice returned.               *)
(***************************************************************************)
NoVerdict == /\ verdict' = "None"
             /\ circuit' = PyNone

NoRanks == ranks' = None

NoCalendars == /\ early' = None
               /\ late' = None
               /\ margins' = None

NoPaths == /\ paths' = PyNone
           /\ stack' = <<>>

Init ==
    /\ file \in Files
    /\ tasks = <<>>
    /\ matrix = None
    /\ n = 0
    /\ omega = 0
    /\ pc = "menu"
    /\ error = ""
    /\ calls = <<>>
    /\ verdict = "None"
    /\ circuit = PyNone
    /\ ranks = None
    /\ early = None
    /\ late = None
    /\ margins = None
    /\ paths = PyNone
    /\ stack = <<>>

\* choix == "1": lire_fichier, then construire_graphe when it returned True
Choix1 ==
    /\ pc = "menu"
    /\ LET r == LireFichier(file, n, omega, tasks) IN
       /\ tasks' = r.tasks
       /\ n' = r.n
       /\ omega' = r.omega
       /\ IF r.ret
          THEN LET g == ConstruireGraphe(r.tasks, r.n, r.omega) IN
               /\ matrix' = g.m
               /\ error' = g.err
               /\ pc' = IF g.err = "" THEN "menu" ELSE "crashed"
               /\ calls' = <<"lire_fichier", "construire_graphe">>
          ELSE /\ UNCHANGED <<matrix, error, pc>>
               /\ calls' = <<"lire_fichier">>
    /\ NoVerdict /\ NoRanks /\ NoCalendars /\ NoPaths
    /\ UNCHANGED file

\* choix == "2": afficher_graphe only prints
Choix2 ==
    /\ pc = "menu"
    /\ calls' = <<"afficher_graphe">>
    /\ NoVerdict /\ NoRanks /\ NoCalendars /\ NoPaths
    /\ UNCHANGED <<file, tasks, matrix, n, omega, pc, error>>

\* choix == "3"
Choix3 ==
    /\ pc = "menu"
    /\ LET v == VerifierProprietes(matrix) IN
       /\ verdict' = IF v.ret THEN "True" ELSE "False"
       /\ circuit' = v.circuit
       /\ calls' = IF v.called
                   THEN <<"verifier_proprietes", "detecter_circuit">>
                   ELSE <<"verifier_proprietes">>
    /\ NoRanks /\ NoCalendars /\ NoPaths
    /\ UNCHANGED <<file, tasks, matrix, n, omega, pc, error>>

\* choix == "4"
Choix4 ==
    /\ pc = "menu"
    /\ ranks' = CalculerRangs(matrix)
    /\ calls' = <<"calculer_rangs">>
    /\ NoVerdict /\ NoCalendars /\ NoPaths
    /\ UNCHANGED <<file, tasks, matrix, n, omega, pc, error>>

\* choix == "5"
Choix5 ==
    /\ pc = "menu"
    /\ LET c == CalculerCalendriers(matrix, omega) IN
       /\ early' = c.early
       /\ late' = c.late
       /\ margins' = c.margins
    /\ calls' = <<"calculer_calendriers">>
    /\ NoVerdict /\ NoRanks /\ NoPaths
    /\ UNCHANGED <<file, tasks, matrix, n, omega, pc, error>>

\* choix == "6"
Choix6 ==
    /\ pc = "menu"
    /\ LET c == CalculerCalendriers(matrix, omega)
           p == TrouverCheminsCritiques(matrix, omega, c.early, c.late)
       IN /\ early' = c.early
          /\ late' = c.late
          /\ margins' = c.margins
          /\ paths' = p.ret
          /\ stack' = p.stack
          /\ error' = p.err
          /\ pc' = IF p.err = "" THEN "menu" ELSE "crashed"
    /\ calls' = <<"calculer_calendriers", "trouver_chemins_critiques">>
    /\ NoVerdict /\ NoRanks
    /\ UNCHANGED <<file, tasks, matrix, n, omega>>

\* choix == "7": every step, the analyses only when verifier_proprietes
\* returned True
Choix7 ==
    /\ pc = "menu"
    /\ IF DOMAIN tasks = {}
       THEN /\ calls' = <<>>
            /\ NoVerdict /\ NoRanks /\ NoCalendars /\ NoPaths
            /\ UNCHANGED <<pc, error>>
       ELSE LET v == VerifierProprietes(matrix) IN
            /\ verdict' = IF v.ret THEN "True" ELSE "False"
            /\ circuit' = v.circuit
            /\ IF v.ret
               THEN LET c == CalculerCalendriers(matrix, omega)
                        p == TrouverCheminsCritiques(matrix, omega,
                                                     c.early, c.late)
                    IN /\ ranks' = CalculerRangs(matrix)
                       /\ early' = c.early
                       /\ late' = c.late
                       /\ margins' = c.margins
                       /\ paths' = p.ret
                       /\ stack' = p.stack
                       /\ error' = p.err
                       /\ pc' = IF p.err = "" THEN "menu" ELSE "crashed"
                       /\ calls' = <<"afficher_graphe", "verifier_proprietes",
                                     "detecter_circuit", "calculer_rangs",
                                     "calculer_calendriers",
                                     "trouver_chemins_critiques">>
               ELSE /\ NoRanks /\ NoCalendars /\ NoPaths
                    /\ UNCHANGED <<pc, error>>
                    /\ calls' = IF v.called
                                THEN <<"afficher_graphe",
                                       "verifier_proprietes",
                                       "detecter_circuit">>
                                ELSE <<"afficher_graphe",
                                       "verifier_proprietes">>
    /\ UNCHANGED <<file, tasks, matrix, n, omega>>

\* choix == "8": break
Choix8 ==
    /\ pc = "menu"
    /\ pc' = "done"
    /\ calls' = <<>>
    /\ NoVerdict /\ NoRanks /\ NoCalendars /\ NoPaths
    /\ UNCHANGED <<file, tasks, matrix, n, omega, error>>

\* any other input: "Choix invalide"
ChoixInvalide ==
    /\ pc = "menu"
    /\ calls' = <<>>
    /\ NoVerdict /\ NoRanks /\ NoCalendars /\ NoPaths
    /\ UNCHANGED <<file, tasks, matrix, n, omega, pc, error>>

Next ==
    \/ Choix1
    \/ Choix2
    \/ Choix3
    \/ Choix4
    \/ Choix5
    \/ Choix6
    \/ Choix7
    \/ Choix8
    \/ ChoixInvalide

Spec == Init /\ [][Next]_vars

(***************************************************************************)
(* One session of the program: the user chooses 1, 3, 4 and 6, in that     *)
(* order.  Every state of a session is a state of Spec.                    *)
(***************************************************************************)
Session1 == calls = <<>> /\ Choix1

Session3 == calls # <<>> /\ calls[1] = "lire_fichier" /\ Choix3

Session4 == calls # <<>> /\ calls[1] = "verifier_proprietes" /\ Choix4

Session6 == calls # <<>> /\ calls[1] = "calculer_rangs" /\ Choix6

NextSession ==
    \/ Session1
    \/ Session3
    \/ Session4
    \/ Session6

SpecSession == Init /\ [][NextSession]_vars

(***************************************************************************)
(* Graph notions the properties are stated with.  They are defined on the  *)
(* matrix alone, not with the algorithms above.                            *)
(***************************************************************************)
Called(f) == \E k \in 1..Len(calls) : calls[k] = f

Built == matrix # None /\ pc # "crashed"

Arc(m, i, j) == m[i][j] # None

\* the vertices one arc away from a vertex of S
Succ(m, S) == {j \in DOMAIN m : \E i \in S : Arc(m, i, j)}

\* the vertices R reaches by one arc or more, R being what S reaches
RECURSIVE Closure(_, _)
Closure(m, R) ==
    IF Succ(m, R) \subseteq R THEN R ELSE Closure(m, R \cup Succ(m, R))

ReachPlus(m, v) == Closure(m, Succ(m, {v}))

HasCycle(m) == \E v \in DOMAIN m : v \in ReachPlus(m, v)

NoNegativeArc(m) ==
    \A i \in DOMAIN m : \A j \in DOMAIN m : Arc(m, i, j) => m[i][j][1] >= 0

\* s is a closed walk of the graph: it ends where it began, along arcs
IsCircuit(m, s) ==
    /\ Len(s) >= 2
    /\ s[1] = s[Len(s)]
    /\ \A k \in 1..(Len(s) - 1) : Arc(m, s[k], s[k + 1])

\* the walks of at most k vertices that extend a walk of P along the arcs E
RECURSIVE Walks(_, _, _)
Walks(E, P, k) ==
    IF k = 0 \/ P = {} THEN {}
    ELSE P \cup Walks(E,
                      UNION {{Append(p, e[2]) :
                                 e \in {d \in E : d[1] = p[Len(p)]}} : p \in P},
                      k - 1)

\* the walks from a to b of at most k vertices
WalksBetween(E, a, b, k) == {p \in Walks(E, {<<a>>}, k) : p[Len(p)] = b}

Arcs(m) == {e \in (DOMAIN m) \X (DOMAIN m) : Arc(m, e[1], e[2])}

\* the arcs (i, j) with late[j] - early[i] - weight(i, j) = 0
ZeroSlackArcs(m, e, l) ==
    {a \in Arcs(m) : l[a[2]] # Inf /\ l[a[2]] - e[a[1]] - m[a[1]][a[2]][1] = 0}

Max(S) == CHOOSE x \in S : \A y \in S : y <= x

\* task ids 1..n, every predecessor defined
WellFormed(tbl) ==
    /\ DOMAIN tbl = 1..Cardinality(DOMAIN tbl)
    /\ \A t \in DOMAIN tbl : tbl[t].preds \subseteq DOMAIN tbl

\* the Python list <<x0, x1, ...>> as the model holds it
AsList(s) == [i \in 0..(Len(s) - 1) |-> s[i + 1]]

(***************************************************************************)
(* Properties                                                              *)
(***************************************************************************)

\* C1: on every graph construire_graphe built, verifier_proprietes returns
\* True exactly when no arc has a negative weight and the graph has no
\* cycle; on a graph with a cycle it returns False and detecter_circuit
\* returns a truthy value; on an acyclic graph detecter_circuit returns None.
C1_Verdict ==
    (Called("verifier_proprietes") /\ Built) =>
        /\ (verdict = "True") <=> (NoNegativeArc(matrix) /\ ~HasCycle(matrix))
        /\ HasCycle(matrix) => (verdict = "False" /\ Truthy(circuit))
        /\ ~HasCycle(matrix) => circuit = PyNone

\* C1 witness: verifier_proprietes has rejected a graph with a cycle
C1_Witness ==
    /\ Called("verifier_proprietes") /\ Built
    /\ HasCycle(matrix) /\ verdict = "False" /\ Truthy(circuit)

\* C2: calculer_rangs, calculer_calendriers and trouver_chemins_critiques
\* are called only on a graph for which verifier_proprietes returns True.
C2_Gate ==
    (Built /\ (Called("calculer_rangs") \/ Called("calculer_calendriers")
               \/ Called("trouver_chemins_critiques")))
        => VerifierProprietes(matrix).ret

\* C3: whenever the graph has a cycle, detecter_circuit returns a list of
\* vertices v0 .. vk with vk = v0, k >= 1, whose consecutive vertices are
\* joined by arcs.
C3_CircuitWitness ==
    (Called("detecter_circuit") /\ Built /\ HasCycle(matrix)) =>
        (circuit.tag = "list" /\ IsCircuit(matrix, circuit.val))

\* C4: on every graph that passes verifier_proprietes, the calendars satisfy
\* 0 <= early[i] <= late[i] <= early[omega] for every vertex i, and the
\* margins of alpha and omega are 0.
C4_CalendarBounds ==
    (Called("calculer_calendriers") /\ Built
     /\ VerifierProprietes(matrix).ret) =>
        /\ \A i \in DOMAIN matrix :
               0 <= early[i] /\ early[i] <= late[i] /\ late[i] <= early[omega]
        /\ margins[alpha] = 0
        /\ margins[omega] = 0

\* C5: on a graph that passes verifier_proprietes, with the calendars of
\* calculer_calendriers, trouver_chemins_critiques returns exactly the paths
\* from alpha to omega made of zero-slack arcs, each once.
C5_CriticalPaths ==
    (Called("trouver_chemins_critiques") /\ Built
     /\ VerifierProprietes(matrix).ret) =>
        /\ paths.tag = "list"
        /\ Range(paths.val) =
               WalksBetween(ZeroSlackArcs(matrix, early, late), alpha, omega,
                            Len0(matrix) + 1)
        /\ Len(paths.val) = Cardinality(Range(paths.val))

\* C5 witness: two critical paths or more were returned on a valid graph
C5_Witness ==
    /\ Called("trouver_chemins_critiques") /\ Built
    /\ VerifierProprietes(matrix).ret
    /\ paths.tag = "list" /\ Len(paths.val) >= 2

\* some task of the table lists a predecessor the table does not define
Dangling(tbl) ==
    \E t \in DOMAIN tbl : ~(tbl[t].preds \subseteq DOMAIN tbl)

\* C6: when a task lists a predecessor that is not a key of the table,
\* construire_graphe raises an exception; a graph it completes holds an arc
\* for every predecessor reference, weighted by the predecessor's duration.
C6_MalformedInput ==
    Called("construire_graphe") =>
        /\ Dangling(tasks) => (pc = "crashed" /\ error # "")
        /\ pc # "crashed" =>
               \A t \in DOMAIN tasks : \A q \in tasks[t].preds :
                   matrix[q][t] = <<tasks[q].dur>>

\* C6 witness: construire_graphe ran on a table with an undefined predecessor
C6_Witness ==
    Called("construire_graphe") /\ Dangling(tasks) /\ error = "KeyError"

\* rank[v] = 0 without incoming arc, 1 + max of the predecessors' otherwise
RankRule(m, r) ==
    \A v \in DOMAIN m :
        LET P == {u \in DOMAIN m : Arc(m, u, v)} IN
        r[v] = IF P = {} THEN 0 ELSE 1 + Max({r[u] : u \in P})

\* k is the number of arcs of a longest walk from a to b
LongestIs(m, a, b, k) ==
    LET W == WalksBetween(Arcs(m), a, b, Len0(m) + 1) IN
    /\ \E p \in W : Len(p) - 1 = k
    /\ \A p \in W : Len(p) - 1 <= k

Triples(m) == {<<e[1], e[2], m[e[1]][e[2]][1]>> : e \in Arcs(m)}

\* the documentation's example has been loaded
ExampleLoaded == file = [kind |-> "ok", table |-> ExampleTable] /\ Built

ExampleArcs ==
    {<<0, 1, 0>>, <<0, 2, 0>>, <<1, 3, 3>>, <<2, 3, 2>>, <<3, 4, 4>>,
     <<4, 5, 1>>}

\* C8, as stated: the example yields the arcs 0->1(0), 0->2(0), 1->3(3),
\* 2->3(2), 3->4(4), 4->5(1), earliest = [0,0,0,3,7,8],
\* latest = [0,1,2,3,7,8], duration 8 and the one critical path 0-1-3-4-5.
C8_ExampleAsStated ==
    ExampleLoaded =>
        /\ Triples(matrix) = ExampleArcs
        /\ Called("trouver_chemins_critiques") =>
               /\ early = AsList(<<0, 0, 0, 3, 7, 8>>)
               /\ late = AsList(<<0, 1, 2, 3, 7, 8>>)
               /\ early[omega] = 8
               /\ paths = PyList(<< <<0, 1, 3, 4, 5>> >>)

\* C8, amended: the same with latest = [0,0,1,3,7,8].
C8_Example ==
    ExampleLoaded =>
        /\ Triples(matrix) = ExampleArcs
        /\ Called("trouver_chemins_critiques") =>
               /\ early = AsList(<<0, 0, 0, 3, 7, 8>>)
               /\ late = AsList(<<0, 0, 1, 3, 7, 8>>)
               /\ early[omega] = 8
               /\ paths = PyList(<< <<0, 1, 3, 4, 5>> >>)

\* C8 witness: the calendars and critical paths of the example are computed
C8_Witness ==
    ExampleLoaded /\ Called("trouver_chemins_critiques") /\ paths.tag = "list"

\* C9: on a graph built from a well-formed table every analysis returns,
\* and the dfs of trouver_chemins_critiques never holds a vertex twice in
\* its path.
C9_Terminates ==
    (Built \/ error = "RecursionError") =>
        (WellFormed(tasks) =>
            /\ error = ""
            /\ \A j, k \in 1..Len(stack) : stack[j] = stack[k] => j = k)

InDeg(m, v) == Cardinality({u \in DOMAIN m : Arc(m, u, v)})

OutDeg(m, v) == Cardinality({w \in DOMAIN m : Arc(m, v, w)})

\* the part of C10 that concerns an acyclic graph
SingleSink(m, tbl, om) ==
    /\ \A v \in DOMAIN m : OutDeg(m, v) = 0 <=> v = om
    /\ om \in ReachPlus(m, alpha)
    /\ \A t \in DOMAIN tbl : om \in ReachPlus(m, t)

\* every task that no task lists as a predecessor has an arc to omega
\* weighted by its own duration
SinksRouted(m, tbl, om) ==
    \A t \in DOMAIN tbl :
        (\A u \in DOMAIN tbl : t \notin tbl[u].preds) =>
            m[t][om] = <<tbl[t].dur>>

\* C10, as stated: on a graph built from a well-formed table, alpha is the
\* only vertex with in-degree 0; when the graph is acyclic, omega is the
\* only vertex without outgoing arc and is reached from alpha and from
\* every task, the tasks without successors by an arc of their duration.
C10_SourceSinkAsStated ==
    (Called("construire_graphe") /\ Built /\ WellFormed(tasks)) =>
        /\ \A v \in DOMAIN matrix : InDeg(matrix, v) = 0 <=> v = alpha
        /\ ~HasCycle(matrix) => SingleSink(matrix, tasks, omega)
        /\ SinksRouted(matrix, tasks, omega)

\* C10, amended: alpha has in-degree 0 and every task has in-degree 1 or
\* more; when the graph is acyclic and the table is not empty, omega has
\* in-degree 1 or more too, so alpha is the only vertex with in-degree 0,
\* and the rest of the claim holds; the tasks without successors have their
\* arc to omega in every case.
C10_SourceSink ==
    (Called("construire_graphe") /\ Built /\ WellFormed(tasks)) =>
        /\ InDeg(matrix, alpha) = 0
        /\ \A t \in DOMAIN tasks : InDeg(matrix, t) >= 1
        /\ (~HasCycle(matrix) /\ DOMAIN tasks # {}) =>
               /\ InDeg(matrix, omega) >= 1
               /\ SingleSink(matrix, tasks, omega)
        /\ SinksRouted(matrix, tasks, omega)

\* C10 witness: an acyclic graph built from two tasks, both routed to omega
C10_Witness ==
    /\ Called("construire_graphe") /\ Built /\ WellFormed(tasks)
    /\ ~HasCycle(matrix)
    /\ InDeg(matrix, omega) = 2

=============================================================================
